---------------------------- MODULE Spec2Model ----------------------------
(***************************************************************************)
(* helixia.db: a JSON file used as a key-value store.                      *)
(*                                                                         *)
(* Two implementations of the same class are modelled side by side and are *)
(* driven by the same sequence of calls:                                   *)
(*   - the cached store (src/unnamed/part_003): the document is loaded in  *)
(*     the constructor, kept in this.data, and failures are thrown;        *)
(*   - the reload store (src/index.js): every operation loads the document *)
(*     from the file, and failures are logged and a default is returned.   *)
(*                                                                         *)
(* Values are JavaScript values; numbers are exact fractions together with *)
(* NaN and the two infinities, and -0 is identified with 0, as === does.   *)
(* A value handed to set() is not modified by the caller afterwards.       *)
(***************************************************************************)
EXTENDS Integers, Sequences, FiniteSets, TLC

(***************************************************************************)
(* Bounds of the model.                                                    *)
(***************************************************************************)
MaxNum == 1     \* stored finite numbers n satisfy |n| <= MaxNum

(***************************************************************************)
(* JavaScript values.  A value is a tuple whose first element is its tag.  *)
(***************************************************************************)
Undef == <<"undefined">>
Null == <<"null">>
NaN == <<"nan">>
Fn == <<"function">>                \* a method inherited from Object.prototype
Inf(s) == <<"inf", s>>              \* Infinity (s = 1), -Infinity (s = -1)
Bool(b) == <<"bool", b>>
Str(s) == <<"str", s>>
Arr(items) == <<"arr", items>>      \* items: a sequence of values
Obj(fields) == <<"obj", fields>>    \* fields: a function from sub-keys to values

Abs(n) == IF n < 0 THEN -n ELSE n
Sign(n) == IF n < 0 THEN -1 ELSE 1

RECURSIVE GCD(_, _)
GCD(a, b) == IF b = 0 THEN a ELSE GCD(b, a % b)

\* The number n/d (d # 0) in lowest terms with a positive denominator.
Num(n, d) ==
    LET g == GCD(Abs(n), Abs(d))
    IN  <<"num", (Sign(d) * n) \div g, Abs(d) \div g>>

Whole(n) == Num(n, 1)

IsFinite(v) == v[1] = "num"
IsNumber(v) == v[1] \in {"num", "inf", "nan"}       \* typeof v === 'number'
IsArray(v) == v[1] = "arr"                          \* Array.isArray(v)
IsObject(v) == v[1] \in {"arr", "obj"}              \* typeof v === 'object' && v !== null

\* !v : undefined, null, NaN, 0, false and '' are falsy.
Falsy(v) ==
    \/ v[1] \in {"undefined", "null", "nan"}
    \/ v[1] = "num" /\ v[2] = 0
    \/ v[1] = "bool" /\ v[2] = FALSE
    \/ v[1] = "str" /\ v[2] = ""

\* a || null
OrNull(v) == IF Falsy(v) THEN Null ELSE v

(***************************************************************************)
(* The arithmetic of math(), on a stored number x and a finite operand m.  *)
(***************************************************************************)
NumSign(x) == IF x[1] = "inf" THEN x[2] ELSE IF x[2] < 0 THEN -1 ELSE IF x[2] = 0 THEN 0 ELSE 1

Plus(x, m) ==
    IF x[1] = "num" THEN Num(x[2] * m[3] + m[2] * x[3], x[3] * m[3]) ELSE x

Minus(x, m) ==
    IF x[1] = "num" THEN Num(x[2] * m[3] - m[2] * x[3], x[3] * m[3]) ELSE x

Times(x, m) ==
    IF x[1] = "num" THEN Num(x[2] * m[2], x[3] * m[3])
    ELSE IF x[1] = "nan" \/ m[2] = 0 THEN NaN
    ELSE Inf(x[2] * Sign(m[2]))

Divide(x, m) ==
    IF x[1] = "nan" THEN NaN
    ELSE IF m[2] = 0
         THEN IF NumSign(x) = 0 THEN NaN ELSE Inf(NumSign(x))     \* n / 0
    ELSE IF x[1] = "inf" THEN Inf(x[2] * Sign(m[2]))
    ELSE Num(x[2] * m[3], x[3] * m[2])

(***************************************************************************)
(* Inputs of the calls.                                                    *)
(***************************************************************************)
Keys == {"a", "toString"}
ProtoKeys == {"toString"}       \* names every object inherits from Object.prototype
SubKeys == {"s"}
Operators == {"+", "-", "*", "/", "%"}
Operands == {Whole(0), Whole(1)}

\* The arrays a caller passes to set(); the last one holds an element twice.
Arrays == {<< >>, <<Whole(0)>>, <<Str("x"), Whole(0), Str("x")>>}

\* What a caller passes to set(): undefined, null, and JSON-representable values.
SetValues ==
    {Undef, Null, Whole(0), Whole(MaxNum), Str("x")}
        \cup {Arr(q) : q \in Arrays}
        \cup {Obj([s \in {} |-> Null]), Obj([s \in SubKeys |-> Str("x")])}

\* What a caller passes to delete() and deleteEach().
MatchValues == {Whole(0), Str("x")}

Indexes == {0, 1}

\* What a caller passes to push().
PushElements == {Str("x")}

(***************************************************************************)
(* Documents, JSON text and files.                                         *)
(***************************************************************************)
EmptyDoc == [k \in {} |-> Null]                                     \* {}

\* data[key]: an own entry, else what the prototype chain gives.
Lookup(data, key) ==
    IF key \in DOMAIN data THEN data[key]
    ELSE IF key \in ProtoKeys THEN Fn ELSE Undef

\* key in data
In(data, key) == key \in DOMAIN data \/ key \in ProtoKeys

\* data[key] = value
Assign(data, key, value) ==
    [k \in DOMAIN data \cup {key} |-> IF k = key THEN value ELSE data[k]]

\* delete data[key]
Delete(data, key) == [k \in DOMAIN data \ {key} |-> data[k]]

\* A filter that takes out the first element equal to value and keeps the later ones.
RECURSIVE Filter_FirstOnly(_, _)
Filter_FirstOnly(items, value) ==
    IF items = << >> THEN << >>
    ELSE IF Head(items) = value /\ value # <<"nan">> THEN Tail(items)
    ELSE <<Head(items)>> \o Filter_FirstOnly(Tail(items), value)

\* items.filter(item => item !== value); NaN !== NaN.
Filter(items, value) ==
    LET Keep(item) == item # value \/ item = NaN
    IN  SelectSeq(items, Keep)

\* v === w
StrictEq(v, w) == v = w /\ v # NaN

\* JSON.stringify of one value: a non-finite number is written as null, an
\* undefined or function member of an array as null, of an object not at all.
JsonPrim(v) == IF v[1] \in {"inf", "nan", "undefined", "function"} THEN Null ELSE v

JsonVal(v) ==
    IF v[1] = "arr" THEN Arr([i \in DOMAIN v[2] |-> JsonPrim(v[2][i])])
    ELSE IF v[1] = "obj"
         THEN Obj([s \in {t \in DOMAIN v[2] : v[2][t][1] \notin {"undefined", "function"}}
                     |-> JsonPrim(v[2][s])])
    ELSE JsonPrim(v)

\* JSON.stringify(data, null, 2): the text is identified with the document it denotes.
Stringify(data) ==
    <<"json", [k \in {j \in DOMAIN data : data[j][1] \notin {"undefined", "function"}}
                 |-> JsonVal(data[k])]>>

Absent == <<"absent">>          \* no file at the path
Malformed == <<"malformed">>    \* a file whose text is not JSON

\* fs.existsSync(path)
Exists(file) == file # Absent

\* JSON.parse(text), for text that parses
Parse(text) == text[2]
Parses(text) == text[1] = "json"

\* backupPath arguments: none given, or the default path `<file>.bak`.
NoPath == "undefined"
BakPath == "bak"
Paths == {NoPath, BakPath}

\* The arithmetic of math()'s switch.
Apply(operator, x, m) ==
    CASE operator = "+" -> Plus(x, m)
      [] operator = "-" -> Minus(x, m)
      [] operator = "*" -> Times(x, m)
      [] operator = "/" -> Divide(x, m)
      [] OTHER -> x

(***************************************************************************)
(* The cached store (src/unnamed/part_003).  Every operation maps the      *)
(* instance's document `data`, the backing file and the backup file to     *)
(* their new values, the value returned (ret) and the error thrown (err).  *)
(***************************************************************************)
CReturn(data, file, bak, ret) ==
    [data |-> data, file |-> file, bak |-> bak, ret |-> ret, err |-> "none"]

CThrow(data, file, bak, err) ==
    [data |-> data, file |-> file, bak |-> bak, ret |-> Undef, err |-> err]

Cached_saveData(data) == Stringify(data)

Cached_loadData(data, file, bak) ==
    IF Exists(file)
    THEN IF Parses(file)
         THEN CReturn(Parse(file), file, bak, Undef)
         ELSE CThrow(data, file, bak, "INVALID_JSON")
    ELSE CReturn(EmptyDoc, Cached_saveData(EmptyDoc), bak, Undef)

Cached_createBackup(data, file, bak, backupPath) ==
    IF Exists(file)
    THEN CReturn(data, file, file, Undef)
    ELSE CThrow(data, file, bak, "ENOENT")

\* restoreBackup that copies the backup and forgets to load it.
Cached_restoreBackup_NoLoad(data, file, bak, backupPath) ==
    IF backupPath = NoPath \/ ~Exists(bak)
    THEN CThrow(data, file, bak, "ReferenceError")
    ELSE CReturn(data, bak, bak, Undef)

Cached_restoreBackup(data, file, bak, backupPath) ==
    IF backupPath = NoPath \/ ~Exists(bak)
    THEN CThrow(data, file, bak, "ReferenceError")
    ELSE Cached_loadData(data, bak, bak)

Cached_set(data, file, bak, key, value) ==
    IF value = Null \/ value = Undef
    THEN CThrow(data, file, bak, "INVALID_VALUE")
    ELSE LET d == Assign(data, key, value)
         IN  CReturn(d, Cached_saveData(d), bak, Undef)

Cached_get(data, file, bak, key) ==
    CReturn(data, file, bak, OrNull(Lookup(data, key)))

Cached_remove(data, file, bak, key) ==
    LET d == Delete(data, key)
    IN  CReturn(d, Cached_saveData(d), bak, Undef)

Cached_delete(data, file, bak, key, value) ==
    IF ~IsArray(Lookup(data, key))
    THEN CThrow(data, file, bak, "ARRAY_NOT_FOUND")
    ELSE LET d == Assign(data, key, Arr(Filter(data[key][2], value)))
         IN  CReturn(d, Cached_saveData(d), bak, Undef)

\* subKey is never an array index here, so deleting it from an array changes nothing.
Cached_deleteKey(data, file, bak, key, subKey) ==
    IF ~IsObject(Lookup(data, key))
    THEN CThrow(data, file, bak, "OBJECT_NOT_FOUND")
    ELSE LET d == IF IsArray(data[key]) THEN data
                  ELSE Assign(data, key, Obj(Delete(data[key][2], subKey)))
         IN  CReturn(d, Cached_saveData(d), bak, Undef)

\* deleteEach that filters the arrays and forgets the `else if` branch.
EachKey_ArraysOnly(data, value) ==
    [k \in DOMAIN data |-> IF IsArray(data[k]) THEN Arr(Filter(data[k][2], value)) ELSE data[k]]

\* The body of deleteEach's forEach, over the keys that remain.
EachKey(data, value) ==
    LET kept == {k \in DOMAIN data : IsArray(data[k]) \/ ~StrictEq(data[k], value)}
    IN  [k \in kept |-> IF IsArray(data[k]) THEN Arr(Filter(data[k][2], value)) ELSE data[k]]

Cached_deleteEach(data, file, bak, value) ==
    LET d == EachKey(data, value)
    IN  CReturn(d, Cached_saveData(d), bak, Undef)

Cached_has(data, file, bak, key) ==
    CReturn(data, file, bak, Bool(In(data, key)))

Cached_fetch(data, file, bak, key) == Cached_get(data, file, bak, key)

Cached_all(data, file, bak) == CReturn(data, file, bak, <<"doc", data>>)

\* clear that empties this.data and forgets saveData().
Cached_clear_NoSave(data, file, bak) == CReturn(EmptyDoc, file, bak, Undef)

Cached_clear(data, file, bak) ==
    CReturn(EmptyDoc, Cached_saveData(EmptyDoc), bak, Undef)

Cached_destroy(data, file, bak) ==
    IF Exists(file)
    THEN CReturn(data, Absent, bak, Undef)
    ELSE CThrow(data, file, bak, "ENOENT")

\* obj[subKey] for an array or an object; subKey is no index and no inherited name.
Member(v, subKey) ==
    IF v[1] = "obj" /\ subKey \in DOMAIN v[2] THEN v[2][subKey] ELSE Undef

\* arr[index], index counted from 0
Element(v, index) ==
    IF index + 1 \in DOMAIN v[2] THEN v[2][index + 1] ELSE Undef

Cached_fetchObject(data, file, bak, key, subKey) ==
    IF ~IsObject(Lookup(data, key))
    THEN CThrow(data, file, bak, "OBJECT_NOT_FOUND")
    ELSE CReturn(data, file, bak, OrNull(Member(data[key], subKey)))

Cached_fetchArray(data, file, bak, key, index) ==
    IF ~IsArray(Lookup(data, key))
    THEN CThrow(data, file, bak, "ARRAY_NOT_FOUND")
    ELSE CReturn(data, file, bak, OrNull(Element(data[key], index)))

\* DatabaseError is not in scope in this file: `new DatabaseError` throws a ReferenceError.
Cached_math(data, file, bak, key, operator, value) ==
    IF ~IsNumber(Lookup(data, key))
    THEN CThrow(data, file, bak, "ReferenceError")
    ELSE IF operator \notin {"+", "-", "*", "/"}
    THEN CThrow(data, file, bak, "ReferenceError")
    ELSE LET d == Assign(data, key, Apply(operator, data[key], value))
         IN  CReturn(d, Cached_saveData(d), bak, d[key])

\* The class has no push method: db.push is undefined and calling it throws a TypeError.
Cached_push(data, file, bak, key, element) == CThrow(data, file, bak, "TypeError")

\* new HelixiaDB(filePath)
Cached_constructor(file, bak) == Cached_loadData(EmptyDoc, file, bak)

(***************************************************************************)
(* The reload store (src/index.js).  The instance holds only the path:     *)
(* every operation maps the backing file and the backup file to their new  *)
(* values, the value returned (ret), the error caught and logged by the    *)
(* operation (err) and the error caught and logged by loadData (log).      *)
(***************************************************************************)
RReturn(file, bak, ret, log) ==
    [file |-> file, bak |-> bak, ret |-> ret, err |-> "none", log |-> log]

RCatch(file, bak, ret, err, log) ==
    [file |-> file, bak |-> bak, ret |-> ret, err |-> err, log |-> log]

Reload_saveData(data) == Stringify(data)

\* The document returned, the file afterwards and the error logged.
Reload_loadData(file) ==
    IF Exists(file)
    THEN IF Parses(file)
         THEN [data |-> Parse(file), file |-> file, log |-> "none"]
         ELSE [data |-> EmptyDoc, file |-> file, log |-> "INVALID_JSON"]
    ELSE [data |-> EmptyDoc, file |-> Reload_saveData(EmptyDoc), log |-> "none"]

Reload_createBackup(file, bak, backupPath) ==
    IF Exists(file)
    THEN RReturn(file, file, Undef, "none")
    ELSE RCatch(file, bak, Undef, "ENOENT", "none")

\* restoreBackup that loads and forgets to copy the backup over the file.
Reload_restoreBackup_NoCopy(file, bak, backupPath) ==
    IF backupPath = NoPath \/ ~Exists(bak)
    THEN RCatch(file, bak, Undef, "Backup file not found.", "none")
    ELSE RReturn(Reload_loadData(file).file, bak, Undef, Reload_loadData(file).log)

Reload_restoreBackup(file, bak, backupPath) ==
    IF backupPath = NoPath \/ ~Exists(bak)
    THEN RCatch(file, bak, Undef, "Backup file not found.", "none")
    ELSE RReturn(bak, bak, Undef, Reload_loadData(bak).log)

Reload_set(file, bak, key, value) ==
    IF value = Null \/ value = Undef
    THEN RCatch(file, bak, Undef, "INVALID_VALUE", "none")
    ELSE LET l == Reload_loadData(file)
         IN  RReturn(Reload_saveData(Assign(l.data, key, value)), bak, Undef, l.log)

Reload_get(file, bak, key) ==
    LET l == Reload_loadData(file)
    IN  RReturn(l.file, bak, OrNull(Lookup(l.data, key)), l.log)

Reload_remove(file, bak, key) ==
    LET l == Reload_loadData(file)
    IN  RReturn(Reload_saveData(Delete(l.data, key)), bak, Undef, l.log)

\* delete without the Array.isArray check: anything else is taken for an empty array.
Reload_delete_NoCheck(file, bak, key, value) ==
    LET l == Reload_loadData(file)
        items == IF IsArray(Lookup(l.data, key)) THEN l.data[key][2] ELSE << >>
    IN  RReturn(Reload_saveData(Assign(l.data, key, Arr(Filter(items, value)))),
                bak, Undef, l.log)

Reload_delete(file, bak, key, value) ==
    LET l == Reload_loadData(file)
    IN  IF ~IsArray(Lookup(l.data, key))
        THEN RCatch(l.file, bak, Undef, "ARRAY_NOT_FOUND", l.log)
        ELSE RReturn(Reload_saveData(Assign(l.data, key, Arr(Filter(l.data[key][2], value)))),
                     bak, Undef, l.log)

Reload_deleteKey(file, bak, key, subKey) ==
    LET l == Reload_loadData(file)
    IN  IF ~IsObject(Lookup(l.data, key))
        THEN RCatch(l.file, bak, Undef, "OBJECT_NOT_FOUND", l.log)
        ELSE LET d == IF IsArray(l.data[key]) THEN l.data
                      ELSE Assign(l.data, key, Obj(Delete(l.data[key][2], subKey)))
             IN  RReturn(Reload_saveData(d), bak, Undef, l.log)

Reload_deleteEach(file, bak, value) ==
    LET l == Reload_loadData(file)
    IN  RReturn(Reload_saveData(EachKey(l.data, value)), bak, Undef, l.log)

Reload_has(file, bak, key) ==
    LET l == Reload_loadData(file)
    IN  RReturn(l.file, bak, Bool(In(l.data, key)), l.log)

Reload_fetch(file, bak, key) == Reload_get(file, bak, key)

Reload_all(file, bak) ==
    LET l == Reload_loadData(file)
    IN  RReturn(l.file, bak, <<"doc", l.data>>, l.log)

Reload_clear(file, bak) == RReturn(Reload_saveData(EmptyDoc), bak, Undef, "none")

Reload_destroy(file, bak) ==
    IF Exists(file)
    THEN RReturn(Absent, bak, Undef, "none")
    ELSE RCatch(file, bak, Undef, "ENOENT", "none")

Reload_fetchObject(file, bak, key, subKey) ==
    LET l == Reload_loadData(file)
    IN  IF ~IsObject(Lookup(l.data, key))
        THEN RCatch(l.file, bak, Null, "OBJECT_NOT_FOUND", l.log)
        ELSE RReturn(l.file, bak, OrNull(Member(l.data[key], subKey)), l.log)

Reload_fetchArray(file, bak, key, index) ==
    LET l == Reload_loadData(file)
    IN  IF ~IsArray(Lookup(l.data, key))
        THEN RCatch(l.file, bak, Null, "ARRAY_NOT_FOUND", l.log)
        ELSE RReturn(l.file, bak, OrNull(Element(l.data[key], index)), l.log)

\* DatabaseError is not in scope in this file either: each `throw new DatabaseError`
\* raises a ReferenceError, which the catch logs before returning null.
Reload_math(file, bak, key, operator, value) ==
    LET l == Reload_loadData(file)
    IN  IF ~IsNumber(Lookup(l.data, key))
        THEN RCatch(l.file, bak, Null, "ReferenceError", l.log)
        ELSE IF operator \notin {"+", "-", "*", "/"}
        THEN RCatch(l.file, bak, Null, "ReferenceError", l.log)
        ELSE IF operator = "/" /\ value = Whole(0)
        THEN RCatch(l.file, bak, Null, "ReferenceError", l.log)
        ELSE LET d == Assign(l.data, key, Apply(operator, l.data[key], value))
             IN  RReturn(Reload_saveData(d), bak, d[key], l.log)

\* This class has no push method either; the TypeError reaches the caller.
Reload_push(file, bak, key, element) == RCatch(file, bak, Undef, "TypeError", "none")

(***************************************************************************)
(* State.  impl says which implementation runs: the cached store, the      *)
(* reload store, or both, each on its own file system, constructed on the  *)
(* same initial file and given the same calls.                             *)
(***************************************************************************)
VARIABLES
    impl,       \* "cached", "reload" or "both"
    cdata,      \* cached store: this.data
    cfile,      \* cached store: the file at this.filePath
    cbak,       \* cached store: the file at `<filePath>.bak`
    cwritten,   \* cached store: the last JSON text written to this.filePath
    odata,      \* cached store: this.data of the second instance on the same
                \* filePath, where two are in use ({} where there is one)
    rfile,      \* reload store: the file at this.filePath
    rbak,       \* reload store: the file at `<filePath>.bak`
    last        \* the last call: its name, its arguments and what each store answered

vars == <<impl, cdata, cfile, cbak, cwritten, odata, rfile, rbak, last>>

RunsCached == impl \in {"cached", "both"}
RunsReload == impl \in {"reload", "both"}

\* The files a store may be constructed on.
InitFiles == {Absent, Malformed, Stringify(EmptyDoc), Stringify([k \in {"a"} |-> Null])}

Off == [ret |-> Undef, err |-> "off", log |-> "none"]

Answer(op, args, c, r) ==
    [op |-> op, args |-> args,
     c |-> IF RunsCached THEN [ret |-> c.ret, err |-> c.err, log |-> "none"] ELSE Off,
     r |-> IF RunsReload THEN [ret |-> r.ret, err |-> r.err, log |-> r.log] ELSE Off]

\* The stores that run complete the call.
Step(op, args, c, r) ==
    /\ impl' = impl
    /\ IF RunsCached
       THEN /\ cdata' = c.data
            /\ cfile' = c.file
            /\ cbak' = c.bak
            /\ cwritten' = IF c.file # cfile /\ Parses(c.file) THEN c.file ELSE cwritten
       ELSE UNCHANGED <<cdata, cfile, cbak, cwritten>>
    /\ odata' = odata
    /\ IF RunsReload
       THEN /\ rfile' = r.file
            /\ rbak' = r.bak
       ELSE UNCHANGED <<rfile, rbak>>
    /\ last' = Answer(op, args, c, r)

\* The state after `new HelixiaDB(path)` has returned, for the stores in `impls`
\* and the file f found at the path, which `last` records as the argument.  The
\* constructor of the cached store throws on a malformed file: no store exists.
\* With two instances, the second is constructed right after the first.
Construct(impls, instances) ==
    \E i \in impls, f \in InitFiles :
        LET c == Cached_constructor(f, Absent)
        IN  /\ i \in {"cached", "both"} => c.err = "none"
            /\ impl = i
            /\ cdata = IF RunsCached THEN c.data ELSE EmptyDoc
            /\ cfile = IF RunsCached THEN c.file ELSE f
            /\ cbak = Absent
            /\ cwritten = IF RunsCached THEN c.file ELSE f
            /\ odata = IF instances = 2 THEN cdata ELSE EmptyDoc
            /\ rfile = f
            /\ rbak = Absent
            /\ last = Answer("new", <<f>>, c, RReturn(f, Absent, Undef, "none"))

Init == Construct({"cached", "reload"}, 1)

\* Every stored number is within the bounds of the model.
Bounded(data) ==
    \A k \in DOMAIN data :
        data[k][1] = "num" => Abs(data[k][2]) <= MaxNum

set(K, V) ==
    \E key \in K, value \in V :
        /\ Step("set", <<Str(key), value>>,
             Cached_set(cdata, cfile, cbak, key, value),
             Reload_set(rfile, rbak, key, value))

get(K) ==
    \E key \in K :
        /\ Step("get", <<Str(key)>>,
             Cached_get(cdata, cfile, cbak, key),
             Reload_get(rfile, rbak, key))

remove(K) ==
    \E key \in K :
        /\ Step("remove", <<Str(key)>>,
             Cached_remove(cdata, cfile, cbak, key),
             Reload_remove(rfile, rbak, key))

delete(K, V) ==
    \E key \in K, value \in V :
        /\ Step("delete", <<Str(key), value>>,
             Cached_delete(cdata, cfile, cbak, key, value),
             Reload_delete(rfile, rbak, key, value))

deleteKey(K) ==
    \E key \in K, subKey \in SubKeys :
        /\ Step("deleteKey", <<Str(key), Str(subKey)>>,
             Cached_deleteKey(cdata, cfile, cbak, key, subKey),
             Reload_deleteKey(rfile, rbak, key, subKey))

deleteEach(V) ==
    \E value \in V :
        /\ Step("deleteEach", <<value>>,
             Cached_deleteEach(cdata, cfile, cbak, value),
             Reload_deleteEach(rfile, rbak, value))

has(K) ==
    \E key \in K :
        /\ Step("has", <<Str(key)>>,
             Cached_has(cdata, cfile, cbak, key),
             Reload_has(rfile, rbak, key))

fetch(K) ==
    \E key \in K :
        /\ Step("fetch", <<Str(key)>>,
             Cached_fetch(cdata, cfile, cbak, key),
             Reload_fetch(rfile, rbak, key))

all ==
    /\ Step("all", << >>, Cached_all(cdata, cfile, cbak), Reload_all(rfile, rbak))

clear ==
    /\ Step("clear", << >>, Cached_clear(cdata, cfile, cbak), Reload_clear(rfile, rbak))

destroy ==
    /\ Step("destroy", << >>, Cached_destroy(cdata, cfile, cbak), Reload_destroy(rfile, rbak))

fetchObject(K) ==
    \E key \in K, subKey \in SubKeys :
        /\ Step("fetchObject", <<Str(key), Str(subKey)>>,
             Cached_fetchObject(cdata, cfile, cbak, key, subKey),
             Reload_fetchObject(rfile, rbak, key, subKey))

fetchArray(K) ==
    \E key \in K, index \in Indexes :
        /\ Step("fetchArray", <<Str(key), Whole(index)>>,
             Cached_fetchArray(cdata, cfile, cbak, key, index),
             Reload_fetchArray(rfile, rbak, key, index))

math(K, O) ==
    \E key \in K, operator \in O, value \in Operands :
        LET c == Cached_math(cdata, cfile, cbak, key, operator, value)
            r == Reload_math(rfile, rbak, key, operator, value)
        IN  /\ RunsCached => Bounded(c.data)
            /\ RunsReload /\ Parses(r.file) => Bounded(Parse(r.file))
            /\ Step("math", <<Str(key), Str(operator), value>>, c, r)

push(K) ==
    \E key \in K, element \in PushElements :
        /\ Step("push", <<Str(key), element>>,
             Cached_push(cdata, cfile, cbak, key, element),
             Reload_push(rfile, rbak, key, element))

createBackup ==
    \E backupPath \in Paths :
        /\ Step("createBackup", <<Str(backupPath)>>,
             Cached_createBackup(cdata, cfile, cbak, backupPath),
             Reload_createBackup(rfile, rbak, backupPath))

restoreBackup ==
    \E backupPath \in Paths :
        /\ Step("restoreBackup", <<Str(backupPath)>>,
             Cached_restoreBackup(cdata, cfile, cbak, backupPath),
             Reload_restoreBackup(rfile, rbak, backupPath))

\* A fresh instance is constructed on the same path and asked for all(); the
\* first instance stays in use.
reopen ==
    LET n == Cached_constructor(cfile, cbak)
        c == IF n.err = "none" THEN Cached_all(n.data, n.file, n.bak) ELSE n
    IN  /\ Step("reopen", << >>,
             [c EXCEPT !.data = cdata],
             Reload_all(rfile, rbak))

\* Something outside the store overwrites the backing file with text that is not JSON.
Corrupt ==
    /\ (RunsCached /\ Exists(cfile)) \/ (RunsReload /\ Exists(rfile))
    /\ Step("corrupt", << >>,
            CReturn(cdata, IF Exists(cfile) THEN Malformed ELSE cfile, cbak, Undef),
            RReturn(IF Exists(rfile) THEN Malformed ELSE rfile, rbak, Undef, "none"))

\* The caller turns to the other of two instances constructed on the same path:
\* the instance in use and the one set aside change places.
Switch ==
    /\ impl' = impl
    /\ cdata' = odata
    /\ odata' = cdata
    /\ UNCHANGED <<cfile, cbak, cwritten, rfile, rbak>>
    /\ last' = Answer("switch", << >>, CReturn(odata, cfile, cbak, Undef),
                      RReturn(rfile, rbak, Undef, "none"))

\* One store at a time, left alone by the outside world, every operation but
\* createBackup: no backup file ever exists.
Next ==
    \/ set(Keys, SetValues) \/ get(Keys) \/ remove(Keys) \/ delete(Keys, MatchValues)
    \/ deleteKey(Keys) \/ deleteEach(MatchValues) \/ has(Keys) \/ fetch(Keys)
    \/ all \/ clear \/ destroy \/ fetchObject(Keys) \/ fetchArray(Keys)
    \/ math(Keys, Operators) \/ push(Keys) \/ restoreBackup \/ reopen

Spec == Init /\ [][Next]_vars

\* Both stores side by side, backups included, on one key and a few values.
BothKeys == {"a"}
BothValues == {Undef, Whole(0), Whole(1), Arr(<<Str("x")>>)}
BothOperators == {"+", "/", "%"}

InitBoth == Construct({"both"}, 1)

NextBoth ==
    \/ set(BothKeys, BothValues) \/ get(BothKeys) \/ remove(BothKeys)
    \/ delete(BothKeys, {Str("x")}) \/ deleteKey(BothKeys) \/ deleteEach({Whole(0)})
    \/ has(BothKeys) \/ fetch(BothKeys) \/ all \/ clear \/ destroy
    \/ fetchObject(BothKeys) \/ fetchArray(BothKeys) \/ math(BothKeys, BothOperators)
    \/ push(BothKeys) \/ createBackup \/ restoreBackup \/ reopen \/ Corrupt

SpecBoth == InitBoth /\ [][NextBoth]_vars

\* Two instances of one store on the same backing file, used in turn, each call
\* running to its end before the next starts.
TwoKeys == {"a", "b"}
TwoValues == {Whole(0), Whole(1), Arr(<<Str("x")>>)}
TwoOperators == {"+", "/"}

InitTwo == Construct({"cached", "reload"}, 2)

NextTwo ==
    \/ set(TwoKeys, TwoValues) \/ get(TwoKeys) \/ remove(TwoKeys)
    \/ delete(TwoKeys, {Str("x")}) \/ deleteEach({Whole(0)}) \/ all \/ clear \/ destroy
    \/ math(TwoKeys, TwoOperators) \/ Switch

SpecTwo == InitTwo /\ [][NextTwo]_vars

(***************************************************************************)
(* What the claims speak of.                                               *)
(***************************************************************************)
\* The document a file holds; a missing or malformed file holds no entries.
DiskDoc(file) == IF Parses(file) THEN Parse(file) ELSE EmptyDoc

\* The first argument of a call is its key.
KeyOf(call) == call.args[1][2]

\* The call reported an error in every store that ran it.
Failed(call) ==
    /\ call.c.err \in {"none", "off"} => call.c.err = "off"
    /\ call.r.err \in {"none", "off"} => call.r.err = "off"

\* The call reported no error in any store that ran it.
Succeeded(call) == call.c.err \in {"none", "off"} /\ call.r.err \in {"none", "off"}

\* Every store that ran the call returned ret.
Returned(call, ret) ==
    /\ call.c.err # "off" => call.c.ret = ret
    /\ call.r.err # "off" => call.r.ret = ret

(***************************************************************************)
(* C1: a get(k) or fetch(k) that immediately follows a successful          *)
(* set(k, v), v neither undefined nor null, returns v.                     *)
(***************************************************************************)
C1_SetThenGet ==
    [][(/\ last.op = "set"
        /\ Succeeded(last)
        /\ last'.op \in {"get", "fetch"}
        /\ KeyOf(last') = KeyOf(last))
       => Returned(last', last.args[2])]_vars

(***************************************************************************)
(* C2: a has(k) that immediately follows a successful set(k, v) returns    *)
(* true, and a has(k) that immediately follows remove(k) returns false.    *)
(***************************************************************************)
C2_HasAfterSetAndRemove ==
    [][(/\ last'.op = "has"
        /\ last.op \in {"set", "remove"}
        /\ Succeeded(last)
        /\ KeyOf(last') = KeyOf(last))
       => Returned(last', Bool(last.op = "set"))]_vars

(***************************************************************************)
(* C3: in the cached store, after construction and after every call, the   *)
(* document in memory is the document of the JSON text last written to the *)
(* backing file.                                                           *)
(***************************************************************************)
C3_MemoryMirrorsFile == RunsCached => cdata = Parse(cwritten)

(***************************************************************************)
(* C4: a failing set (undefined or null value), deleteKey, fetchObject,    *)
(* fetchArray, math (target not a number, or unknown operator) or          *)
(* restoreBackup (no backup at the path) changes nothing: the document in  *)
(* memory, the backing file (whether it exists, and its text) and the      *)
(* backup are what they were before the call.                              *)
(***************************************************************************)
C4_FailureChangesNothing ==
    [][(/\ last'.op \in {"set", "deleteKey", "fetchObject", "fetchArray",
                         "math", "restoreBackup"}
        /\ last'.op = "math" => last'.args[2] # Str("/") \/ last'.args[3] # Whole(0)
        /\ Failed(last'))
       => UNCHANGED <<cdata, cfile, cbak, rfile, rbak>>]_vars

(***************************************************************************)
(* C5: delete(k, v) when the value stored at k is not an array (a scalar,  *)
(* an object, or k not stored) fails with ARRAY_NOT_FOUND, and the         *)
(* document is unchanged, in memory and on disk: the cached store's data   *)
(* and file are untouched, and the reload store's file holds the same      *)
(* entries as before and, if it existed, the same text.  (A file that does *)
(* not exist holds no entries; that the reload store creates it is C4.)    *)
(***************************************************************************)
C5_DeleteOnNonArray ==
    [][(last'.op = "delete" =>
          /\ (RunsCached /\ ~IsArray(Lookup(cdata, KeyOf(last')))) =>
                /\ last'.c.err = "ARRAY_NOT_FOUND"
                /\ cdata' = cdata
                /\ cfile' = cfile
          /\ (RunsReload /\ ~IsArray(Lookup(DiskDoc(rfile), KeyOf(last')))) =>
                /\ last'.r.err = "ARRAY_NOT_FOUND"
                /\ DiskDoc(rfile') = DiskDoc(rfile)
                /\ Exists(rfile) => rfile' = rfile)]_vars

\* delete('a', v) has just failed on a number stored at 'a', in the reload store.
C5_Witness ==
    /\ impl = "reload"
    /\ last.op = "delete"
    /\ last.r.err = "ARRAY_NOT_FOUND"
    /\ KeyOf(last) = "a"
    /\ IsNumber(Lookup(DiskDoc(rfile), "a"))

(***************************************************************************)
(* C6: math(k, '/', 0) on a key that holds a number fails, and the value   *)
(* at k is unchanged in memory and in the backing file.                    *)
(***************************************************************************)
C6_DivisionByZeroRejected ==
    [][(/\ last'.op = "math"
        /\ last'.args[2] = Str("/")
        /\ last'.args[3] = Whole(0))
       => /\ (RunsCached /\ IsNumber(Lookup(cdata, KeyOf(last')))) =>
                /\ last'.c.err # "none"
                /\ cdata' = cdata
                /\ cfile' = cfile
          /\ (RunsReload /\ IsNumber(Lookup(DiskDoc(rfile), KeyOf(last')))) =>
                /\ last'.r.err # "none"
                /\ rfile' = rfile]_vars

(***************************************************************************)
(* C7: on a key holding the finite number n, math(k, op, m) with op one of *)
(* + - * / (m not 0 for /) returns n op m and writes it to the backing     *)
(* file, and a get(k) that follows at once returns that same number.       *)
(***************************************************************************)
\* x is the number n op m, for finite numbers n and m.
IsResult(x, op, n, m) ==
    /\ x[1] = "num"
    /\ CASE op = "+" -> x[2] * n[3] * m[3] = (n[2] * m[3] + m[2] * n[3]) * x[3]
         [] op = "-" -> x[2] * n[3] * m[3] = (n[2] * m[3] - m[2] * n[3]) * x[3]
         [] op = "*" -> x[2] * n[3] * m[3] = n[2] * m[2] * x[3]
         [] op = "/" -> x[2] * n[3] * m[2] = n[2] * m[3] * x[3]

C7_MathThenGet ==
    [][/\ (/\ last'.op = "math"
           /\ last'.args[2][2] \in {"+", "-", "*", "/"}
           /\ last'.args[2] = Str("/") => last'.args[3] # Whole(0))
          => /\ (RunsCached /\ IsFinite(Lookup(cdata, KeyOf(last')))) =>
                   /\ IsResult(last'.c.ret, last'.args[2][2], cdata[KeyOf(last')], last'.args[3])
                   /\ Lookup(DiskDoc(cfile'), KeyOf(last')) = last'.c.ret
             /\ (RunsReload /\ IsFinite(Lookup(DiskDoc(rfile), KeyOf(last')))) =>
                   /\ IsResult(last'.r.ret, last'.args[2][2],
                               DiskDoc(rfile)[KeyOf(last')], last'.args[3])
                   /\ Lookup(DiskDoc(rfile'), KeyOf(last')) = last'.r.ret
       /\ (/\ last.op = "math"
           /\ Succeeded(last)
           /\ last.args[2] = Str("/") => last.args[3] # Whole(0)
           /\ IsFinite(IF RunsCached THEN last.c.ret ELSE last.r.ret)
           /\ last'.op = "get"
           /\ KeyOf(last') = KeyOf(last))
          => /\ RunsCached => last'.c.ret = last.c.ret
             /\ RunsReload => last'.r.ret = last.r.ret]_vars

(***************************************************************************)
(* C8, as claimed: once createBackup() has copied a backing file that      *)
(* holds a document D, and whatever was done to the backing file since,    *)
(* restoreBackup() called without a path leaves the backing file equal to  *)
(* the backup and the store's document equal to D.                         *)
(***************************************************************************)
C8_RestoreWithoutPath ==
    (last.op = "restoreBackup" /\ last.args[1] = Str(NoPath)) =>
        /\ (RunsCached /\ Parses(cbak)) => cfile = cbak /\ cdata = Parse(cbak)
        /\ (RunsReload /\ Parses(rbak)) => rfile = rbak

(***************************************************************************)
(* C8, amended: once createBackup() has copied a backing file that holds a *)
(* document D, and whatever was done to the backing file since,            *)
(* restoreBackup(`<file>.bak`) succeeds, leaves the backing file equal to  *)
(* the backup, and all() then returns D.                                   *)
(***************************************************************************)
C8_RestoreFromBackupPath ==
    (last.op = "restoreBackup" /\ last.args[1] = Str(BakPath)) =>
        /\ (RunsCached /\ Parses(cbak)) =>
              /\ last.c.err = "none"
              /\ cfile = cbak
              /\ Cached_all(cdata, cfile, cbak).ret = <<"doc", Parse(cbak)>>
        /\ (RunsReload /\ Parses(rbak)) =>
              /\ last.r.err = "none"
              /\ rfile = rbak
              /\ Reload_all(rfile, rbak).ret = <<"doc", Parse(rbak)>>

\* restoreBackup(`<file>.bak`) has just brought back a document with an entry.
C8_Witness ==
    /\ last.op = "restoreBackup"
    /\ last.args[1] = Str(BakPath)
    /\ last.c.err = "none"
    /\ last.r.err = "none"
    /\ Parses(cbak) /\ Parse(cbak) # EmptyDoc
    /\ Parses(rbak) /\ Parse(rbak) # EmptyDoc

(***************************************************************************)
(* C9: when the backing file holds a document, a fresh instance            *)
(* constructed on the same path returns from all() the document the file   *)
(* holds, which is also what the first instance's all() returns.           *)
(***************************************************************************)
C9_ReloadRoundTrip ==
    [][last'.op = "reopen" =>
          /\ (RunsCached /\ Parses(cfile)) =>
                /\ last'.c.ret = <<"doc", Parse(cfile)>>
                /\ last'.c.ret = Cached_all(cdata, cfile, cbak).ret
          /\ (RunsReload /\ Parses(rfile)) =>
                /\ last'.r.ret = <<"doc", Parse(rfile)>>
                /\ last'.r.ret = Reload_all(rfile, rbak).ret]_vars

(***************************************************************************)
(* C10: from a state in which the two stores agree (the same backing file, *)
(* which holds the cached store's document), a call answers the same in    *)
(* both (the same value returned, or an error in both) and leaves the same *)
(* backing file in both.                                                   *)
(***************************************************************************)
C10_VariantsEquivalent ==
    [][(/\ impl = "both"
        /\ cfile = rfile
        /\ Parses(cfile)
        /\ cdata = Parse(cfile)
        /\ last'.op # "corrupt")
       => /\ \/ last'.c.err # "none" /\ last'.r.err # "none"
             \/ last'.c.err = "none" /\ last'.r.err = "none" /\ last'.c.ret = last'.r.ret
          /\ cfile' = rfile']_vars

(***************************************************************************)
(* C11: deleteEach(v) goes over all top-level keys in one call and         *)
(* persists once at the end: every entry that holds a sequence keeps its   *)
(* elements other than v, in their order, and loses every element equal to *)
(* v; every entry whose scalar value equals v is deleted; every other      *)
(* entry is unchanged; no entry appears; and the backing file holds the    *)
(* resulting document.                                                     *)
(***************************************************************************)
\* items with every element equal to v left out, the others in their order.
RECURSIVE Without(_, _)
Without(items, v) ==
    IF items = << >> THEN << >>
    ELSE IF Head(items) = v THEN Without(Tail(items), v)
    ELSE <<Head(items)>> \o Without(Tail(items), v)

\* after is what deleteEach(v) is to make of the document before.
EachDone(before, after, v) ==
    /\ DOMAIN after \subseteq DOMAIN before
    /\ \A k \in DOMAIN before :
          IF IsArray(before[k])
          THEN k \in DOMAIN after /\ after[k] = Arr(Without(before[k][2], v))
          ELSE IF before[k] = v
          THEN k \notin DOMAIN after
          ELSE k \in DOMAIN after /\ after[k] = before[k]

C11_DeleteEach ==
    [][last'.op = "deleteEach" =>
          /\ RunsCached =>
                /\ last'.c.err = "none"
                /\ EachDone(cdata, cdata', last'.args[1])
                /\ cfile' = Stringify(cdata')
          /\ RunsReload =>
                /\ last'.r.err = "none"
                /\ Parses(rfile')
                /\ EachDone(DiskDoc(rfile), Parse(rfile'), last'.args[1])]_vars

\* deleteEach(0) has just left ['x', 'x'] at 'a' and nothing at 'toString'.
C11_Witness ==
    /\ last.op = "deleteEach"
    /\ last.args[1] = Whole(0)
    /\ LET doc == IF RunsCached THEN cdata ELSE DiskDoc(rfile)
       IN  /\ DOMAIN doc = {"a"}
           /\ doc["a"] = Arr(<<Str("x"), Str("x")>>)

(***************************************************************************)
(* C12: destroy() removes the backing file and leaves the document in      *)
(* memory unchanged: right after destroy() the file does not exist, and    *)
(* get(k), has(k) and all() return what they returned right before it.     *)
(***************************************************************************)
C12_DestroyKeepsDocument ==
    [][last'.op = "destroy" =>
          /\ RunsCached =>
                /\ ~Exists(cfile')
                /\ cdata' = cdata
                /\ Cached_all(cdata', cfile', cbak').ret = Cached_all(cdata, cfile, cbak).ret
                /\ \A k \in Keys :
                      /\ Cached_get(cdata', cfile', cbak', k).ret
                            = Cached_get(cdata, cfile, cbak, k).ret
                      /\ Cached_has(cdata', cfile', cbak', k).ret
                            = Cached_has(cdata, cfile, cbak, k).ret
          /\ RunsReload =>
                /\ ~Exists(rfile')
                /\ Reload_all(rfile', rbak').ret = Reload_all(rfile, rbak).ret
                /\ \A k \in Keys :
                      /\ Reload_get(rfile', rbak', k).ret = Reload_get(rfile, rbak, k).ret
                      /\ Reload_has(rfile', rbak', k).ret = Reload_has(rfile, rbak, k).ret]_vars

(***************************************************************************)
(* C13: destroy() deletes the database file and clears all data: after     *)
(* destroy(), and until the next successful set, has(k) is false and       *)
(* get(k) is null for every key k, all() is empty, and no later operation  *)
(* brings an entry back.  Stated as: destroy() leaves the store cleared,   *)
(* and a cleared store stays cleared through every call but a successful   *)
(* set.  The keys k are those that are not names of Object.prototype (what *)
(* has answers for those is C18).                                          *)
(***************************************************************************)
\* What the reads answer in this state: nothing is stored.
Cleared ==
    /\ RunsCached =>
          /\ Cached_all(cdata, cfile, cbak).ret = <<"doc", EmptyDoc>>
          /\ \A k \in Keys \ ProtoKeys :
                /\ Cached_has(cdata, cfile, cbak, k).ret = Bool(FALSE)
                /\ Cached_get(cdata, cfile, cbak, k).ret = Null
    /\ RunsReload =>
          /\ Reload_all(rfile, rbak).ret = <<"doc", EmptyDoc>>
          /\ \A k \in Keys \ ProtoKeys :
                /\ Reload_has(rfile, rbak, k).ret = Bool(FALSE)
                /\ Reload_get(rfile, rbak, k).ret = Null

C13_DestroyClearsAllData ==
    [][/\ last'.op = "destroy" =>
             /\ RunsCached => ~Exists(cfile')
             /\ RunsReload => ~Exists(rfile')
             /\ Cleared'
       /\ (Cleared /\ ~(last'.op = "set" /\ Succeeded(last'))) => Cleared']_vars

(***************************************************************************)
(* C14: construction loads or creates the document: when the constructor   *)
(* has returned, the backing file exists; if no file was there, the file   *)
(* now holds an empty document; if a file was there, its contents are      *)
(* unchanged and are the store's document.                                 *)
(***************************************************************************)
C14_ConstructorLoadsOrCreates ==
    last.op = "new" =>
        LET found == last.args[1]
        IN  /\ RunsCached =>
                  /\ Exists(cfile)
                  /\ ~Exists(found) => cfile = Stringify(EmptyDoc) /\ cdata = EmptyDoc
                  /\ Exists(found) => cfile = found /\ Parses(found) /\ cdata = Parse(found)
            /\ RunsReload =>
                  /\ Exists(rfile)
                  /\ ~Exists(found) => rfile = Stringify(EmptyDoc)
                  /\ Exists(found) => rfile = found

(***************************************************************************)
(* C15: when the backing file exists and its content is malformed, loading *)
(* fails with INVALID_JSON: the operation that loads reports the error,    *)
(* goes no further on a document put in the file's place, and leaves the   *)
(* malformed file as it is.  In the reload store every operation loads but *)
(* clear, destroy, the backups and a set of undefined or null; in the      *)
(* cached store the constructor and restoreBackup load.                    *)
(***************************************************************************)
ReloadLoads(call) ==
    /\ call.op \in {"set", "get", "remove", "delete", "deleteKey", "deleteEach", "has",
                    "fetch", "all", "fetchObject", "fetchArray", "math", "reopen"}
    /\ call.op = "set" => call.args[2] \notin {Undef, Null}

C15_MalformedFileFailsLoad ==
    [][/\ (RunsReload /\ rfile = Malformed /\ ReloadLoads(last')) =>
             /\ last'.r.log = "INVALID_JSON"
             /\ rfile' = rfile
       /\ (RunsCached /\ cfile = Malformed /\ last'.op = "reopen") =>
             /\ last'.c.err = "INVALID_JSON"
             /\ cfile' = cfile
             /\ cdata' = cdata
       /\ (/\ RunsCached
           /\ cbak = Malformed
           /\ last'.op = "restoreBackup"
           /\ last'.args[1] = Str(BakPath)) =>
             /\ last'.c.err = "INVALID_JSON"
             /\ cfile' = Malformed
             /\ cdata' = cdata]_vars

(***************************************************************************)
(* C16: deleteKey(k, s) and fetchObject(k, s) fail with OBJECT_NOT_FOUND   *)
(* whenever the value stored at k is not a non-null mapping: a scalar,     *)
(* null, nothing, or a sequence; the document is then unchanged.  When it  *)
(* is a mapping, deleteKey succeeds and removes s from it, and fetchObject *)
(* returns the value of s (null if s is not in it).                        *)
(***************************************************************************)
IsMapping(v) == v[1] = "obj"

\* What the call is to answer (ret, err) and leave (after) on the document before.
ObjectCallDone(call, before, after, ret, err) ==
    LET k == call.args[1][2]
        s == call.args[2][2]
        v == Lookup(before, k)
    IN  IF ~IsMapping(v)
        THEN err = "OBJECT_NOT_FOUND" /\ after = before
        ELSE /\ err = "none"
             /\ IF call.op = "deleteKey"
                THEN /\ DOMAIN after = DOMAIN before
                     /\ \A j \in DOMAIN before \ {k} : after[j] = before[j]
                     /\ IsMapping(after[k])
                     /\ DOMAIN after[k][2] = DOMAIN v[2] \ {s}
                     /\ \A t \in DOMAIN after[k][2] : after[k][2][t] = v[2][t]
                ELSE /\ after = before
                     /\ ret = IF s \in DOMAIN v[2] THEN v[2][s] ELSE Null

C16_ObjectNotFound ==
    [][last'.op \in {"deleteKey", "fetchObject"} =>
          /\ RunsCached => ObjectCallDone(last', cdata, cdata', last'.c.ret, last'.c.err)
          /\ RunsReload => ObjectCallDone(last', DiskDoc(rfile), DiskDoc(rfile'),
                                          last'.r.ret, last'.r.err)]_vars

(***************************************************************************)
(* C17: the reads get, fetch, has, all, fetchObject and fetchArray change  *)
(* nothing: in every reachable state, also when no backing file exists,    *)
(* such a call leaves the document in memory, the existence of the backing *)
(* file and the file's contents (and the backup) as they were.             *)
(***************************************************************************)
C17_ReadsChangeNothing ==
    [][last'.op \in {"get", "fetch", "has", "all", "fetchObject", "fetchArray"} =>
          /\ RunsCached => UNCHANGED <<cdata, cfile, cbak>>
          /\ RunsReload => UNCHANGED <<rfile, rbak>>]_vars

(***************************************************************************)
(* C18: has(key) returns true exactly when key is an own entry of the      *)
(* document: false for every key that is not stored, whatever its name,    *)
(* and true for every stored key, also when the stored value is falsy.     *)
(***************************************************************************)
C18_HasOwnEntry ==
    [][last'.op = "has" =>
          /\ RunsCached => last'.c.ret = Bool(KeyOf(last') \in DOMAIN cdata)
          /\ RunsReload => last'.r.ret = Bool(KeyOf(last') \in DOMAIN DiskDoc(rfile))]_vars

(***************************************************************************)
(* C19: clear() replaces the document with an empty mapping and persists   *)
(* it: from any reachable state clear() succeeds and leaves the backing    *)
(* file holding an empty document, and an all() that follows at once       *)
(* returns an empty mapping.                                               *)
(***************************************************************************)
C19_ClearThenAll ==
    [][/\ last'.op = "clear" =>
             /\ Succeeded(last')
             /\ RunsCached => cdata' = EmptyDoc /\ cfile' = Stringify(EmptyDoc)
             /\ RunsReload => rfile' = Stringify(EmptyDoc)
       /\ (last.op = "clear" /\ last'.op = "all") =>
             /\ Succeeded(last')
             /\ Returned(last', <<"doc", EmptyDoc>>)
             /\ RunsCached => cfile' = Stringify(EmptyDoc)
             /\ RunsReload => rfile' = Stringify(EmptyDoc)]_vars

\* clear() has just run in both stores: the document in memory and the one in the
\* file are empty, while the backup made earlier is not.
C19_Witness ==
    /\ last.op = "clear"
    /\ Succeeded(last)
    /\ RunsCached => cdata = EmptyDoc /\ cfile = Stringify(EmptyDoc)
    /\ RunsReload => rfile = Stringify(EmptyDoc)
    /\ cbak # Absent /\ cbak # Stringify(EmptyDoc)

(***************************************************************************)
(* C20: the store offers push(key, element), which appends element to the  *)
(* end of the sequence stored at key and persists it: push(k, e) on a key  *)
(* that holds a sequence succeeds, the value at k is then the sequence     *)
(* with e after its last element, and the backing file holds it.           *)
(***************************************************************************)
C20_PushAppends ==
    [][last'.op = "push" =>
          LET k == KeyOf(last')
              e == last'.args[2]
          IN  /\ (RunsCached /\ IsArray(Lookup(cdata, k))) =>
                    /\ last'.c.err = "none"
                    /\ cdata' = Assign(cdata, k, Arr(Append(cdata[k][2], e)))
                    /\ cfile' = Stringify(cdata')
              /\ (RunsReload /\ IsArray(Lookup(DiskDoc(rfile), k))) =>
                    /\ last'.r.err = "none"
                    /\ DiskDoc(rfile') =
                          Assign(DiskDoc(rfile), k, Arr(Append(DiskDoc(rfile)[k][2], e)))]_vars

(***************************************************************************)
(* C21: no operation of the store leaves the backing file half-written or  *)
(* malformed: when the backing file and the backup, where they exist, hold *)
(* a complete document before a call (createBackup and restoreBackup       *)
(* included), they do so after it.  restoreBackup with no path, or a path  *)
(* at which no file exists, fails and changes nothing; a restoreBackup     *)
(* that succeeds leaves the backing file identical to the backup and the   *)
(* document in memory equal to the backup's document.                      *)
(***************************************************************************)
\* No file, or a file that holds one complete document.
WholeFile(file) == ~Exists(file) \/ Parses(file)

C21_FileAlwaysWholeDocument ==
    [][last'.op # "corrupt" =>
          /\ (RunsCached /\ WholeFile(cfile) /\ WholeFile(cbak)) =>
                WholeFile(cfile') /\ WholeFile(cbak')
          /\ (RunsReload /\ WholeFile(rfile) /\ WholeFile(rbak)) =>
                WholeFile(rfile') /\ WholeFile(rbak')
          /\ (RunsCached /\ last'.op = "restoreBackup") =>
                IF last'.args[1] = Str(NoPath) \/ ~Exists(cbak)
                THEN last'.c.err # "none" /\ UNCHANGED <<cdata, cfile, cbak>>
                ELSE last'.c.err = "none" =>
                        /\ cfile' = cbak
                        /\ cbak' = cbak
                        /\ cdata' = Parse(cbak)
          /\ (RunsReload /\ last'.op = "restoreBackup") =>
                IF last'.args[1] = Str(NoPath) \/ ~Exists(rbak)
                THEN last'.r.err # "none" /\ UNCHANGED <<rfile, rbak>>
                ELSE /\ last'.r.err = "none"
                     /\ rfile' = rbak
                     /\ rbak' = rbak]_vars

\* restoreBackup has just replaced the backing file of both stores by a backup
\* that holds an entry at 'a'.
C21_Witness ==
    /\ last.op = "restoreBackup"
    /\ Succeeded(last)
    /\ impl = "both"
    /\ Parses(cbak) /\ cfile = cbak /\ cdata = Parse(cbak) /\ "a" \in DOMAIN cdata
    /\ Parses(rbak) /\ rfile = rbak

(***************************************************************************)
(* C22: delete(k, v) on a sequence stored at k succeeds, removes every     *)
(* element equal to v (all occurrences), keeps the other elements in their *)
(* order, leaves every other key unchanged, and persists the result; when  *)
(* v does not occur the sequence is unchanged.                             *)
(***************************************************************************)
\* after is what delete(k, v) is to make of the document before.
DeleteDone(before, after, k, v) ==
    LET items == before[k][2]
    IN  /\ DOMAIN after = DOMAIN before
        /\ \A j \in DOMAIN before \ {k} : after[j] = before[j]
        /\ after[k] = Arr(Without(items, v))
        /\ (\A i \in DOMAIN items : items[i] # v) => after[k] = before[k]

C22_DeleteAllOccurrences ==
    [][last'.op = "delete" =>
          LET k == KeyOf(last')
              v == last'.args[2]
          IN  /\ (RunsCached /\ IsArray(Lookup(cdata, k))) =>
                    /\ last'.c.err = "none"
                    /\ DeleteDone(cdata, cdata', k, v)
                    /\ cfile' = Stringify(cdata')
              /\ (RunsReload /\ IsArray(Lookup(DiskDoc(rfile), k))) =>
                    /\ last'.r.err = "none"
                    /\ Parses(rfile')
                    /\ DeleteDone(DiskDoc(rfile), Parse(rfile'), k, v)]_vars

\* delete('a', 'x') has just left [0] at 'a', next to ['x', 0, 'x'] at another key.
C22_Witness ==
    /\ last.op = "delete"
    /\ Succeeded(last)
    /\ last.args = <<Str("a"), Str("x")>>
    /\ LET doc == IF RunsCached THEN cdata ELSE DiskDoc(rfile)
       IN  /\ DOMAIN doc = Keys
           /\ doc["a"] = Arr(<<Whole(0)>>)
           /\ doc["toString"] = Arr(<<Str("x"), Whole(0), Str("x")>>)

(***************************************************************************)
(* C23: two instances on the same backing file, used in turn and each call *)
(* running to its end before the next starts: the last writer wins.  After *)
(* every write operation that succeeds, the backing file holds the         *)
(* document of the instance that performed the write, whatever the other   *)
(* instance wrote before.                                                  *)
(***************************************************************************)
WriteOps == {"set", "remove", "delete", "deleteKey", "deleteEach", "clear", "math",
             "restoreBackup"}

C23_LastWriterWins ==
    [][(last'.op \in WriteOps /\ Succeeded(last')) =>
          /\ RunsCached =>
                /\ Parses(cfile')
                /\ Cached_all(cdata', cfile', cbak').ret = <<"doc", Parse(cfile')>>
          /\ RunsReload =>
                /\ Parses(rfile')
                /\ Reload_all(rfile', rbak').ret = <<"doc", Parse(rfile')>>]_vars

=============================================================================
